---------------------------- MODULE Spec2Model ----------------------------
(***************************************************************************)
(* Model of GazeboServoMotor, the single-joint servo controller of         *)
(* rotors_gazebo_plugins/src/gazebo_servo_motor_plugin.cpp.                *)
(*                                                                         *)
(* Numbers.  The plugin computes in double; the model computes the same    *)
(* expressions exactly, over integers, in these units:                     *)
(*   time                 1/2000 s   (0.001 s = 2, 1.0 s = 2000)           *)
(*   angle, reference     1/2 rad                                          *)
(*   joint velocity       1/2 rad/s                                        *)
(*   gains kp, kd, ki     1/2                                              *)
(*   angle_error_integral 1/4000 rad s     (angle unit * time unit)        *)
(*   torque               1/8000 N m       (gain * angle unit / 2000)      *)
(* With these, angle_error * sampling_time is the integral increment as    *)
(* is, and kp*e - kd*omega + ki*I becomes                                  *)
(* MaxSamplingTime*(kp*e - kd*omega) + ki*I.  Only finite values are       *)
(* modelled (no NaN, no infinity, no rounding).                            *)
(***************************************************************************)
EXTENDS Integers, Sequences, FiniteSets, TLC

\* limit(sampling_time_, 1.0, 0.001): the two literals, in time units.
MaxSamplingTime == 2000
MinSamplingTime == 2

\* Bounds of the inputs the model draws: the largest joint angle and the
\* largest joint velocity a tick samples.
MaxAngle == 1
MaxOmega == 1

\* Bounds of the arguments limit() is applied to on its own: the largest
\* value and the largest limit, either sign.
MaxValue == 3
MaxLimit == 2

VARIABLES
  \* Load's outcome and the connections it made
  phase,                     \* "constructed", "loaded" or "failed" (gzthrow)
  updateConnection,          \* OnUpdate connected to WorldUpdateBegin
  position_command_sub,      \* PositionCommandCallback subscribed
  torque_command_sub,        \* TorqueCommandCallback subscribed
  \* parameters read by Load
  max_torque, max_angle_error_integral, kp, kd, ki, min_angle, max_angle,
  \* controller state
  received_first_command, position_control, angle_reference,
  torque_reference, angle_error_integral, sampling_time,
  \* the function-local static of OnUpdate and whether its initialiser ran
  prev_sim_time, prev_sim_time_guard,
  \* what the last handler did: the event that ran it and the calls it made
  \* on the joint, the publisher and the event/transport layer
  event, calls,
  \* history: the elements Load found missing or inconsistent, the payload
  \* of the last command of each kind delivered, the timestamp of this
  \* instance's previous tick (<<>> before its first), and whether a tick
  \* of this instance has run a control law
  sdf_errors, delivered, own_prev_sim_time, law_ticked,
  \* position of the world-update thread and of the callback-queue thread
  \* inside their handlers (used by the statement-level specification)
  tick_pc, cmd_pc

paramVars == <<max_torque, max_angle_error_integral, kp, kd, ki, min_angle, max_angle>>
loadVars == <<phase, updateConnection, position_command_sub, torque_command_sub, sdf_errors>>
modeVars == <<received_first_command, position_control>>
refVars == <<angle_reference, torque_reference>>
threadVars == <<tick_pc, cmd_pc>>
historyVars == <<sdf_errors, delivered, own_prev_sim_time, law_ticked>>
vars == <<phase, updateConnection, position_command_sub, torque_command_sub,
          max_torque, max_angle_error_integral, kp, kd, ki, min_angle, max_angle,
          received_first_command, position_control, angle_reference,
          torque_reference, angle_error_integral, sampling_time,
          prev_sim_time, prev_sim_time_guard, event, calls, sdf_errors, delivered,
          own_prev_sim_time, law_ticked, tick_pc, cmd_pc>>

timeVars == <<prev_sim_time, prev_sim_time_guard>>

--------------------------------------------------------------------------
\* Inputs

\* Joint samples seen by a tick: GetAngle(0).Radian() and GetVelocity(0).
Angles == (-MaxAngle)..MaxAngle
Omegas == {-MaxOmega, 0, MaxOmega}

\* _info.simTime of a tick: 0 s, 0.01 s, 1.0105 s.  Any order is allowed:
\* the same time twice, a step of 0.01 s, a pause of more than a second,
\* a rewind.
SimTimes == {0, 20, 2021}

\* msg->motor_angle: small references and 1000 rad.
AngleCommands == {-2, 1, 1000 * 2}

\* msg->torque, in torque units: 0.25 N m, -0.5 N m, 100 N m.
TorqueCommands == {2000, -4000, 800000}

\* The tunings an SDF file gives.  Example: Kp 2.0, Kd 0.5, Ki 0, maxTorque 10.
\* Windup: Kp 1.0, Kd 0, Ki 250, maxTorque 0.375, a small integral bound.
\* Zero: both bounds 0.
ExampleTuning == [maxTorque |-> 80000, maxAngleErrorIntegral |-> 3, Kp |-> 4, Kd |-> 1, Ki |-> 0]
WindupTuning == [maxTorque |-> 3000, maxAngleErrorIntegral |-> 5, Kp |-> 2, Kd |-> 0, Ki |-> 500]
ZeroTuning == [maxTorque |-> 0, maxAngleErrorIntegral |-> 0, Kp |-> 2, Kd |-> 1, Ki |-> 2]
Tunings == {ExampleTuning, WindupTuning, ZeroTuning}

\* An SDF element of the plugin: every required element present, the joint
\* found in the model, minAngle <= maxAngle.
GoodSdf(tuning) ==
  [has |-> {"robotNamespace", "jointName", "motorModel", "maxTorque", "noLoadSpeed"},
   jointName |-> "joint", maxTorque |-> tuning.maxTorque,
   maxAngleErrorIntegral |-> tuning.maxAngleErrorIntegral,
   Kp |-> tuning.Kp, Kd |-> tuning.Kd, Ki |-> tuning.Ki,
   maxAngle |-> 3, minAngle |-> -3]

\* The SDF elements with one configuration error each.
FaultySdf ==
  LET good == GoodSdf(ZeroTuning) IN
  { [good EXCEPT !.has = @ \ {"jointName"}],
    [good EXCEPT !.jointName = "no_such_joint"],
    [good EXCEPT !.has = @ \ {"motorModel"}],
    [good EXCEPT !.has = @ \ {"maxTorque"}],
    [good EXCEPT !.has = @ \ {"noLoadSpeed"}],
    [good EXCEPT !.maxAngle = -3, !.minAngle = 3] }

SdfElements == {GoodSdf(tuning) : tuning \in Tunings} \cup FaultySdf

\* The joints of the model the plugin is attached to.
ModelJoints == {"joint"}

\* The configuration errors of an SDF element: a required element missing,
\* a joint name that names no joint of the model, minAngle > maxAngle.
ConfigErrors(sdf) ==
  ({"jointName", "motorModel", "maxTorque", "noLoadSpeed"} \ sdf.has)
  \cup (IF "jointName" \in sdf.has /\ sdf.jointName \notin ModelJoints THEN {"joint"} ELSE {})
  \cup (IF sdf.minAngle > sdf.maxAngle THEN {"angleRange"} ELSE {})

--------------------------------------------------------------------------
\* Pure helpers

\* limit(value, upper, lower): value clamped into [lower, upper].
limit(value, upper, lower) ==
  IF value > upper THEN upper ELSE IF value < lower THEN lower ELSE value

\* The mode the pair (received_first_command_, position_control_) encodes.
Mode(received, position) ==
  IF ~received THEN "Uninitialized"
  ELSE IF position THEN "PositionControl" ELSE "TorqueControl"

mode == Mode(received_first_command, position_control)

\* Calls a handler makes on its collaborators: the joint, the publisher,
\* the world-update event and the transport.
Call(name, args) == [call |-> name, args |-> args]
SetForce(torque) == Call("SetForce", <<torque>>)
JointStateMsg(now, angle, velocity) == Call("publish", <<now, angle, velocity>>)

--------------------------------------------------------------------------
\* The control laws

\* SamplingTime without the limit of line 128.
SamplingTime_Unlimited(simTime) ==
  simTime - (IF prev_sim_time_guard THEN prev_sim_time ELSE simTime)

\* OnUpdate's first four statements: the interval since the static
\* prev_sim_time (initialised to this tick's time on the first call), limited.
SamplingTime(simTime) ==
  LET prev == IF prev_sim_time_guard THEN prev_sim_time ELSE simTime
  IN limit(simTime - prev, MaxSamplingTime, MinSamplingTime)

\* UpdatePosition without the torque limit of line 168.
UpdatePosition_NoTorqueLimit(reference, integral, dt, angle, omega) ==
  LET angle_error == reference - angle
      limited == limit(integral + angle_error * dt,
                       max_angle_error_integral, -max_angle_error_integral)
  IN [angle_error_integral |-> limited,
      calls |-> <<SetForce(MaxSamplingTime * (kp * angle_error - kd * omega) + ki * limited)>>]

\* UpdatePosition without the anti-windup limit of lines 165-166.
UpdatePosition_NoWindupLimit(reference, integral, dt, angle, omega) ==
  LET angle_error == reference - angle
      accumulated == integral + angle_error * dt
      torque == MaxSamplingTime * (kp * angle_error - kd * omega) + ki * accumulated
  IN [angle_error_integral |-> accumulated,
      calls |-> <<SetForce(limit(torque, max_torque, -max_torque))>>]

\* UpdatePosition with the torque computed from the integral as it was
\* before this tick's accumulation (lines 164-166 moved below line 167).
UpdatePosition_StaleIntegral(reference, integral, dt, angle, omega) ==
  LET angle_error == reference - angle
      limited == limit(integral + angle_error * dt,
                       max_angle_error_integral, -max_angle_error_integral)
      torque == MaxSamplingTime * (kp * angle_error - kd * omega) + ki * integral
  IN [angle_error_integral |-> limited,
      calls |-> <<SetForce(limit(torque, max_torque, -max_torque))>>]

\* UpdatePosition: the integral after accumulation and anti-windup limit,
\* and the torque handed to SetForce.
UpdatePosition(reference, integral, dt, angle, omega) ==
  LET angle_error == reference - angle
      accumulated == integral + angle_error * dt
      limited == limit(accumulated, max_angle_error_integral, -max_angle_error_integral)
      torque == MaxSamplingTime * (kp * angle_error - kd * omega) + ki * limited
  IN [angle_error_integral |-> limited,
      calls |-> <<SetForce(limit(torque, max_torque, -max_torque))>>]

\* UpdateTorque with the integral term of the position law left in.
UpdateTorque_IntegralTerm(reference, integral) ==
  [angle_error_integral |-> integral,
   calls |-> <<SetForce(limit(reference + ki * integral, max_torque, -max_torque))>>]

\* UpdateTorque: the limited reference handed to SetForce.
UpdateTorque(reference, integral) ==
  [angle_error_integral |-> integral,
   calls |-> <<SetForce(limit(reference, max_torque, -max_torque))>>]

\* Publish: one JointState message stamped with the simulation time.
Publish(now, angle, omega) == <<JointStateMsg(now, angle, omega)>>

--------------------------------------------------------------------------
\* The handlers, each as one step

\* Load with lines 103-104 moved below the connection of lines 108-109.
Load_ConnectsBeforeLimits(sdf) ==
  LET joint_name == IF "jointName" \in sdf.has THEN sdf.jointName ELSE ""
      lower == sdf.minAngle
      upper == sdf.maxAngle
  IN
  /\ phase = "constructed"
  /\ IF joint_name \notin ModelJoints
       THEN /\ phase' = "failed"
            /\ calls' = <<>>
            /\ UNCHANGED <<updateConnection, position_command_sub, torque_command_sub, paramVars>>
       ELSE /\ phase' = "loaded"
            /\ max_torque' = IF "maxTorque" \in sdf.has THEN sdf.maxTorque ELSE max_torque
            /\ max_angle_error_integral' = sdf.maxAngleErrorIntegral
            /\ kp' = sdf.Kp
            /\ kd' = sdf.Kd
            /\ ki' = sdf.Ki
            /\ max_angle' = upper
            /\ min_angle' = lower
            /\ updateConnection' = TRUE
            /\ position_command_sub' = TRUE
            /\ torque_command_sub' = TRUE
            /\ calls' = << Call("ConnectWorldUpdateBegin", <<>>),
                           Call("SetLowerLimit", <<lower>>), Call("SetUpperLimit", <<upper>>),
                           Call("subscribe", <<"_position">>), Call("subscribe", <<"_torque">>),
                           Call("advertise", <<>>) >>
  /\ UNCHANGED <<modeVars, refVars, angle_error_integral, sampling_time, timeVars>>

\* Load: read the SDF element, look the joint up (gzthrow when there is
\* none), set the joint limits, connect OnUpdate, subscribe, advertise.
\* A missing element is logged with gzerr and its member keeps the value
\* the constructor left; a missing jointName leaves joint_name_ empty.
Load(sdf) ==
  LET joint_name == IF "jointName" \in sdf.has THEN sdf.jointName ELSE ""
      lower == sdf.minAngle
      upper == sdf.maxAngle
  IN
  /\ phase = "constructed"
  /\ IF joint_name \notin ModelJoints
       THEN /\ phase' = "failed"
            /\ calls' = <<>>
            /\ UNCHANGED <<updateConnection, position_command_sub, torque_command_sub, paramVars>>
       ELSE /\ phase' = "loaded"
            /\ max_torque' = IF "maxTorque" \in sdf.has THEN sdf.maxTorque ELSE max_torque
            /\ max_angle_error_integral' = sdf.maxAngleErrorIntegral
            /\ kp' = sdf.Kp
            /\ kd' = sdf.Kd
            /\ ki' = sdf.Ki
            /\ max_angle' = upper
            /\ min_angle' = lower
            /\ updateConnection' = TRUE
            /\ position_command_sub' = TRUE
            /\ torque_command_sub' = TRUE
            /\ calls' = << Call("SetLowerLimit", <<lower>>), Call("SetUpperLimit", <<upper>>),
                           Call("ConnectWorldUpdateBegin", <<>>),
                           Call("subscribe", <<"_position">>), Call("subscribe", <<"_torque">>),
                           Call("advertise", <<>>) >>
  /\ UNCHANGED <<modeVars, refVars, angle_error_integral, sampling_time, timeVars>>

\* OnUpdate without the early return of lines 130-133.
OnUpdate_NoFirstCommandCheck(simTime, angle, omega) ==
  LET dt == SamplingTime(simTime)
      law == IF position_control
               THEN UpdatePosition(angle_reference, angle_error_integral, dt, angle, omega)
               ELSE UpdateTorque(torque_reference, angle_error_integral)
  IN
  /\ sampling_time' = dt
  /\ prev_sim_time' = simTime
  /\ prev_sim_time_guard' = TRUE
  /\ angle_error_integral' = law.angle_error_integral
  /\ calls' = law.calls \o Publish(simTime, angle, omega)
  /\ UNCHANGED <<modeVars, refVars, paramVars, phase, updateConnection,
                 position_command_sub, torque_command_sub>>

\* OnUpdate with Publish called before the control law instead of after it.
OnUpdate_PublishBeforeLaw(simTime, angle, omega) ==
  LET dt == SamplingTime(simTime)
      law == IF position_control
               THEN UpdatePosition(angle_reference, angle_error_integral, dt, angle, omega)
               ELSE UpdateTorque(torque_reference, angle_error_integral)
  IN
  /\ sampling_time' = dt
  /\ prev_sim_time' = simTime
  /\ prev_sim_time_guard' = TRUE
  /\ IF ~received_first_command
       THEN /\ calls' = Publish(simTime, angle, omega)
            /\ UNCHANGED angle_error_integral
       ELSE /\ angle_error_integral' = law.angle_error_integral
            /\ calls' = Publish(simTime, angle, omega) \o law.calls
  /\ UNCHANGED <<modeVars, refVars, paramVars, phase, updateConnection,
                 position_command_sub, torque_command_sub>>

\* OnUpdate with line 127 moved below the early return of lines 130-133:
\* prev_sim_time is left alone by the ticks before the first command.
OnUpdate_PrevSimTimeAfterFirstCommand(simTime, angle, omega) ==
  LET dt == SamplingTime(simTime)
      law == IF position_control
               THEN UpdatePosition(angle_reference, angle_error_integral, dt, angle, omega)
               ELSE UpdateTorque(torque_reference, angle_error_integral)
  IN
  /\ sampling_time' = dt
  /\ prev_sim_time' = IF received_first_command \/ ~prev_sim_time_guard
                         THEN simTime ELSE prev_sim_time
  /\ prev_sim_time_guard' = TRUE
  /\ IF ~received_first_command
       THEN /\ calls' = Publish(simTime, angle, omega)
            /\ UNCHANGED angle_error_integral
       ELSE /\ angle_error_integral' = law.angle_error_integral
            /\ calls' = law.calls \o Publish(simTime, angle, omega)
  /\ UNCHANGED <<modeVars, refVars, paramVars, phase, updateConnection,
                 position_command_sub, torque_command_sub>>

\* OnUpdate: derive the sampling time; before the first command only
\* publish; otherwise run the law of the current mode, then publish.
OnUpdate(simTime, angle, omega) ==
  LET dt == SamplingTime(simTime)
      law == IF position_control
               THEN UpdatePosition(angle_reference, angle_error_integral, dt, angle, omega)
               ELSE UpdateTorque(torque_reference, angle_error_integral)
  IN
  /\ sampling_time' = dt
  /\ prev_sim_time' = simTime
  /\ prev_sim_time_guard' = TRUE
  /\ IF ~received_first_command
       THEN /\ calls' = Publish(simTime, angle, omega)
            /\ UNCHANGED angle_error_integral
       ELSE /\ angle_error_integral' = law.angle_error_integral
            /\ calls' = law.calls \o Publish(simTime, angle, omega)
  /\ UNCHANGED <<modeVars, refVars, paramVars, phase, updateConnection,
                 position_command_sub, torque_command_sub>>

\* PositionCommandCallback without line 149.
PositionCommandCallback_ForgetsMode(motor_angle) ==
  /\ angle_reference' = motor_angle
  /\ received_first_command' = TRUE
  /\ calls' = <<>>
  /\ UNCHANGED <<position_control, torque_reference, angle_error_integral, sampling_time,
                 timeVars, paramVars, phase, updateConnection, position_command_sub,
                 torque_command_sub>>

\* PositionCommandCallback that keeps the reference it already follows:
\* in position mode a new command is dropped.
PositionCommandCallback_FirstWriteWins(motor_angle) ==
  /\ angle_reference' = IF received_first_command /\ position_control
                          THEN angle_reference ELSE motor_angle
  /\ received_first_command' = TRUE
  /\ position_control' = TRUE
  /\ calls' = <<>>
  /\ UNCHANGED <<torque_reference, angle_error_integral, sampling_time, timeVars,
                 paramVars, phase, updateConnection, position_command_sub, torque_command_sub>>

\* PositionCommandCallback: lines 146-149.
PositionCommandCallback(motor_angle) ==
  /\ angle_reference' = motor_angle
  /\ received_first_command' = TRUE
  /\ position_control' = TRUE
  /\ calls' = <<>>
  /\ UNCHANGED <<torque_reference, angle_error_integral, sampling_time, timeVars,
                 paramVars, phase, updateConnection, position_command_sub, torque_command_sub>>

\* TorqueCommandCallback that zeroes the integral when it leaves position
\* control.
TorqueCommandCallback_ResetsIntegral(torque) ==
  /\ torque_reference' = torque
  /\ received_first_command' = TRUE
  /\ position_control' = FALSE
  /\ angle_error_integral' = 0
  /\ calls' = <<>>
  /\ UNCHANGED <<angle_reference, sampling_time, timeVars,
                 paramVars, phase, updateConnection, position_command_sub, torque_command_sub>>

\* TorqueCommandCallback: lines 155-157.
TorqueCommandCallback(torque) ==
  /\ torque_reference' = torque
  /\ received_first_command' = TRUE
  /\ position_control' = FALSE
  /\ calls' = <<>>
  /\ UNCHANGED <<angle_reference, angle_error_integral, sampling_time, timeVars,
                 paramVars, phase, updateConnection, position_command_sub, torque_command_sub>>

--------------------------------------------------------------------------
\* The controller with every handler run to completion before the next

\* The object as its constructor leaves it.
Constructed ==
  /\ phase = "constructed"
  /\ updateConnection = FALSE
  /\ position_command_sub = FALSE
  /\ torque_command_sub = FALSE
  /\ max_torque \in {0, 3000}
  /\ max_angle_error_integral = 0
  /\ kp = 0 /\ kd = 0 /\ ki = 0
  /\ min_angle = 0 /\ max_angle = 0
  /\ received_first_command = FALSE
  /\ position_control \in BOOLEAN
  /\ angle_reference = 0
  /\ torque_reference \in {0, 800000}
  /\ angle_error_integral = 0
  /\ sampling_time = 0

NoCommand == [kind |-> "none", angle |-> <<>>, torque |-> <<>>]

Init ==
  /\ Constructed
  /\ prev_sim_time = 0
  /\ prev_sim_time_guard = FALSE
  /\ event = [handler |-> "constructor", args |-> <<>>]
  /\ calls = <<>>
  /\ sdf_errors = {}
  /\ delivered = NoCommand
  /\ own_prev_sim_time = <<>>
  /\ law_ticked = FALSE
  /\ tick_pc = 0
  /\ cmd_pc = 0

\* gazebo loads the plugin.
Loading ==
  \E sdf \in SdfElements :
    /\ Load(sdf)
    /\ sdf_errors' = ConfigErrors(sdf)
    /\ event' = [handler |-> "Load", args |-> <<>>]
    /\ UNCHANGED <<delivered, own_prev_sim_time, law_ticked, threadVars>>

\* The world update event fires at simTime with the joint at angle, omega.
\* The event records the tick's inputs, the raw time elapsed since the
\* static prev_sim_time was written (0 when this call initialises it),
\* whether this is the instance's first tick, whether it is its first tick
\* to run a control law, and the time elapsed since the instance's
\* previous tick (0 on its first).
TickAt(simTime, angle, omega) ==
  /\ updateConnection
  /\ OnUpdate(simTime, angle, omega)
  /\ event' = [handler |-> "OnUpdate", args |-> <<simTime, angle, omega>>,
               raw |-> IF prev_sim_time_guard THEN simTime - prev_sim_time ELSE 0,
               first |-> own_prev_sim_time = <<>>,
               first_law |-> received_first_command /\ ~law_ticked,
               own_raw |-> IF own_prev_sim_time = <<>> THEN 0
                           ELSE simTime - own_prev_sim_time[1]]
  /\ own_prev_sim_time' = <<simTime>>
  /\ law_ticked' = (law_ticked \/ received_first_command)
  /\ UNCHANGED <<sdf_errors, delivered, threadVars>>

Tick ==
  \E simTime \in SimTimes, angle \in Angles, omega \in Omegas :
    TickAt(simTime, angle, omega)

\* A position command is delivered.  The event records the command and the
\* handler that ran before it.
PositionCommand ==
  \E motor_angle \in AngleCommands :
    /\ position_command_sub
    /\ PositionCommandCallback(motor_angle)
    /\ event' = [handler |-> "PositionCommandCallback", args |-> <<motor_angle>>,
                 after |-> event.handler]
    /\ delivered' = [delivered EXCEPT !.kind = "position", !.angle = <<motor_angle>>]
    /\ UNCHANGED <<sdf_errors, own_prev_sim_time, law_ticked, threadVars>>

\* A torque command is delivered.
TorqueCommand ==
  \E torque \in TorqueCommands :
    /\ torque_command_sub
    /\ TorqueCommandCallback(torque)
    /\ event' = [handler |-> "TorqueCommandCallback", args |-> <<torque>>,
                 after |-> event.handler]
    /\ delivered' = [delivered EXCEPT !.kind = "torque", !.torque = <<torque>>]
    /\ UNCHANGED <<sdf_errors, own_prev_sim_time, law_ticked, threadVars>>

Next == Loading \/ Tick \/ PositionCommand \/ TorqueCommand

Spec == Init /\ [][Next]_vars

\* The last event when it is a tick, and the tick's inputs.
IsTick == event.handler = "OnUpdate"
tickTime == event.args[1]
tickAngle == event.args[2]
tickOmega == event.args[3]

--------------------------------------------------------------------------
\* The controller statement by statement.  OnUpdate runs on the world
\* update thread, the command callbacks on the thread that serves the
\* transport's callback queue (one callback at a time); the source takes no
\* lock in either, so the statements of a callback interleave with those of
\* a tick.  tick_pc and cmd_pc are source lines; 0 is "outside".
\* Here the event is the last tick begun.

\* gazebo loads the plugin with a complete SDF element.
AsyncLoading ==
  \E tuning \in Tunings :
    /\ Load(GoodSdf(tuning))
    /\ sdf_errors' = ConfigErrors(GoodSdf(tuning))
    /\ event' = [handler |-> "Load", args |-> <<>>]
    /\ UNCHANGED <<delivered, own_prev_sim_time, law_ticked, threadVars>>

\* Lines 125-133: the sampling time, then the read of
\* received_first_command_; when it is false, publish and return.
\* The event records the tick's inputs; the joint is sampled at rest.
AsyncTickEnter ==
  \E simTime \in SimTimes, angle \in {0, MaxAngle} :
    /\ updateConnection
    /\ tick_pc = 0
    /\ sampling_time' = SamplingTime(simTime)
    /\ prev_sim_time' = simTime
    /\ prev_sim_time_guard' = TRUE
    /\ event' = [handler |-> "OnUpdate", args |-> <<simTime, angle, 0>>,
                 raw |-> IF prev_sim_time_guard THEN simTime - prev_sim_time ELSE 0,
                 law |-> "none"]
    /\ IF ~received_first_command
         THEN /\ calls' = Publish(simTime, angle, 0)
              /\ UNCHANGED tick_pc
         ELSE /\ calls' = <<>>
              /\ tick_pc' = 135
    /\ own_prev_sim_time' = <<simTime>>
    /\ UNCHANGED <<loadVars, paramVars, modeVars, refVars, angle_error_integral,
                   delivered, law_ticked, cmd_pc>>

\* Line 135: the read of position_control_.
AsyncTickDispatch ==
  /\ tick_pc = 135
  /\ tick_pc' = IF position_control THEN 136 ELSE 138
  /\ UNCHANGED <<loadVars, paramVars, modeVars, refVars, angle_error_integral,
                 sampling_time, timeVars, event, calls, delivered, own_prev_sim_time, law_ticked,
                 cmd_pc>>

\* Lines 136 or 138, then 140: the law chosen at line 135, reading the
\* reference as it is now, then Publish.
AsyncTickLaw ==
  LET law == IF tick_pc = 136
               THEN UpdatePosition(angle_reference, angle_error_integral, sampling_time,
                                   tickAngle, tickOmega)
               ELSE UpdateTorque(torque_reference, angle_error_integral)
  IN
  /\ tick_pc \in {136, 138}
  /\ angle_error_integral' = law.angle_error_integral
  /\ calls' = law.calls \o Publish(tickTime, tickAngle, tickOmega)
  /\ event' = [event EXCEPT !.law = IF tick_pc = 136 THEN "position" ELSE "torque"]
  /\ tick_pc' = 0
  /\ law_ticked' = TRUE
  /\ UNCHANGED <<loadVars, paramVars, modeVars, refVars, sampling_time, timeVars,
                 delivered, own_prev_sim_time, cmd_pc>>

\* Lines 146-147: a position command is taken from the queue and its
\* payload written to angle_reference_.
AsyncPositionReference ==
  \E motor_angle \in AngleCommands :
    /\ position_command_sub
    /\ cmd_pc = 0
    /\ angle_reference' = motor_angle
    /\ cmd_pc' = 148
    /\ delivered' = [delivered EXCEPT !.kind = "position", !.angle = <<motor_angle>>]
    /\ UNCHANGED <<loadVars, paramVars, modeVars, torque_reference, angle_error_integral,
                   sampling_time, timeVars, event, calls, own_prev_sim_time, law_ticked, tick_pc>>

\* Line 155: a torque command is taken from the queue and its payload
\* written to torque_reference_.
AsyncTorqueReference ==
  \E torque \in TorqueCommands :
    /\ torque_command_sub
    /\ cmd_pc = 0
    /\ torque_reference' = torque
    /\ cmd_pc' = 156
    /\ delivered' = [delivered EXCEPT !.kind = "torque", !.torque = <<torque>>]
    /\ UNCHANGED <<loadVars, paramVars, modeVars, angle_reference, angle_error_integral,
                   sampling_time, timeVars, event, calls, own_prev_sim_time, law_ticked, tick_pc>>

\* Lines 148 and 156: received_first_command_ = true.
AsyncCommandReceived ==
  /\ cmd_pc \in {148, 156}
  /\ received_first_command' = TRUE
  /\ cmd_pc' = cmd_pc + 1
  /\ UNCHANGED <<loadVars, paramVars, position_control, refVars, angle_error_integral,
                 sampling_time, timeVars, event, calls, delivered, own_prev_sim_time, law_ticked,
                 tick_pc>>

\* Lines 149 and 157: position_control_ = true, or false.
AsyncCommandMode ==
  /\ cmd_pc \in {149, 157}
  /\ position_control' = (cmd_pc = 149)
  /\ cmd_pc' = 0
  /\ UNCHANGED <<loadVars, paramVars, received_first_command, refVars,
                 angle_error_integral, sampling_time, timeVars, event, calls, delivered,
                 own_prev_sim_time, law_ticked, tick_pc>>

NextAsync ==
  \/ AsyncLoading
  \/ AsyncTickEnter \/ AsyncTickDispatch \/ AsyncTickLaw
  \/ AsyncPositionReference \/ AsyncTorqueReference
  \/ AsyncCommandReceived \/ AsyncCommandMode

SpecAsync == Init /\ [][NextAsync]_vars

--------------------------------------------------------------------------
\* Several GazeboServoMotor instances in one process.  prev_sim_time is a
\* static local of OnUpdate (line 125): there is one for the process, it is
\* initialised by the first call of OnUpdate on any instance, and read and
\* written by every call on every instance.

\* OnUpdate of another instance, as seen from this one: lines 125-127 on
\* the static.  What it writes to its own members and joint is not this
\* instance's state.
OtherInstanceTick ==
  \E simTime \in SimTimes :
    /\ prev_sim_time' = simTime
    /\ prev_sim_time_guard' = TRUE
    /\ UNCHANGED <<phase, updateConnection, position_command_sub, torque_command_sub,
                   paramVars, modeVars, refVars, angle_error_integral, sampling_time,
                   event, calls, historyVars, threadVars>>

\* A tick of this instance with its joint at rest at angle 0.
RestingTick ==
  \E simTime \in SimTimes : TickAt(simTime, 0, 0)

NextProcess ==
  Loading \/ RestingTick \/ OtherInstanceTick \/ PositionCommand \/ TorqueCommand

SpecProcess == Init /\ [][NextProcess]_vars

--------------------------------------------------------------------------
\* limit() on its own: called as at lines 128, 165, 168 and 185, with the
\* value first, then the upper limit, then the lower limit.  The event
\* records the call and, once it has returned, the value returned.

LimitValues == (-MaxValue)..MaxValue
LimitBounds == (-MaxLimit)..MaxLimit

\* A call of limit() about to be made, for every value and every pair of
\* limits, the pairs with upper < lower included.
InitLimit ==
  /\ Constructed
  /\ prev_sim_time = 0
  /\ prev_sim_time_guard = FALSE
  /\ \E value \in LimitValues, upper \in LimitBounds, lower \in LimitBounds :
        event = [handler |-> "limit", args |-> <<value, upper, lower>>, returned |-> <<>>]
  /\ calls = <<>>
  /\ sdf_errors = {}
  /\ delivered = NoCommand
  /\ own_prev_sim_time = <<>>
  /\ law_ticked = FALSE
  /\ tick_pc = 0
  /\ cmd_pc = 0

\* The call with the two limits in each other's place.
LimitCall_LimitsSwapped ==
  /\ event.handler = "limit" /\ event.returned = <<>>
  /\ event' = [event EXCEPT !.returned = <<limit(event.args[1], event.args[3], event.args[2])>>]
  /\ UNCHANGED <<loadVars, paramVars, modeVars, refVars, angle_error_integral,
                 sampling_time, timeVars, calls, delivered, own_prev_sim_time, law_ticked,
                 threadVars>>

\* The call returns.
LimitCall ==
  /\ event.handler = "limit" /\ event.returned = <<>>
  /\ event' = [event EXCEPT !.returned = <<limit(event.args[1], event.args[2], event.args[3])>>]
  /\ UNCHANGED <<loadVars, paramVars, modeVars, refVars, angle_error_integral,
                 sampling_time, timeVars, calls, delivered, own_prev_sim_time, law_ticked,
                 threadVars>>

SpecLimit == InitLimit /\ [][LimitCall]_vars

--------------------------------------------------------------------------
\* Properties of the controller

\* The torques the last handler handed to SetForce, in call order.
Forces == SelectSeq(calls, LAMBDA c : c.call = "SetForce")

\* C1: every torque a tick hands to SetForce lies in [-max_torque, max_torque]
\* (max_torque >= 0), whatever commands and ticks came before and whatever
\* the reference, the joint sample and the gains.
C1_TorqueWithinMaxTorque ==
  max_torque >= 0 =>
    \A i \in DOMAIN Forces :
      /\ Forces[i].args[1] <= max_torque
      /\ Forces[i].args[1] >= -max_torque

\* A position tick with the reference at 1000 rad whose torque is saturated.
C1_Witness ==
  /\ IsTick /\ mode = "PositionControl"
  /\ angle_reference = 1000 * 2
  /\ max_torque > 0
  /\ Forces = <<SetForce(max_torque)>>
  /\ MaxSamplingTime * (kp * (angle_reference - tickAngle) - kd * tickOmega) > max_torque

\* C2: angle_error_integral stays in [-max_angle_error_integral,
\* max_angle_error_integral] (the bound being >= 0) in every state.
C2_IntegralWithinBound ==
  max_angle_error_integral >= 0 =>
    /\ angle_error_integral <= max_angle_error_integral
    /\ angle_error_integral >= -max_angle_error_integral

\* A position tick that left the integral on its bound although the
\* accumulation of this tick alone exceeds it.
C2_Witness ==
  /\ IsTick /\ mode = "PositionControl"
  /\ max_angle_error_integral > 0
  /\ angle_error_integral = -max_angle_error_integral
  /\ (angle_reference - tickAngle) * sampling_time < -2 * max_angle_error_integral

\* C3: once a tick has run, sampling_time lies in [0.001 s, 1.0 s], whatever
\* the raw elapsed time and the mode.
C3_SamplingTimeClamped ==
  prev_sim_time_guard =>
    /\ sampling_time >= MinSamplingTime
    /\ sampling_time <= MaxSamplingTime

\* A tick before any command whose timestamp lies before the previous one.
C3_Witness ==
  /\ IsTick /\ mode = "Uninitialized"
  /\ event.raw < 0
  /\ sampling_time = MinSamplingTime

\* A tick more than a second after the previous one.
C3_WitnessPause ==
  /\ IsTick
  /\ event.raw > MaxSamplingTime
  /\ sampling_time = MaxSamplingTime

\* C4: a tick processed while no command has ever been delivered makes no
\* SetForce call, leaves angle_error_integral unchanged and publishes the
\* joint state once; this holds at every such tick, however many there are.
C4_PassthroughBeforeFirstCommand ==
  [][ (event'.handler = "OnUpdate" /\ delivered'.kind = "none") =>
        /\ calls' = <<JointStateMsg(event'.args[1], event'.args[2], event'.args[3])>>
        /\ angle_error_integral' = angle_error_integral ]_vars

\* A second or later tick with no command delivered so far.
C4_Witness ==
  /\ IsTick /\ delivered.kind = "none"
  /\ event.raw # 0
  /\ Forces = <<>>
  /\ Len(calls) = 1

\* C5: a tick whose most recent command is a torque command with value t
\* hands exactly limit(t, max_torque, -max_torque) to SetForce, once,
\* whatever position commands and position ticks came before.
C5_TorqueTickAppliesLimitedReference ==
  (IsTick /\ delivered.kind = "torque") =>
    Forces = <<SetForce(limit(delivered.torque[1], max_torque, -max_torque))>>

\* A torque tick after position control has left a nonzero integral, with
\* a nonzero ki and a joint away from the old reference.
C5_Witness ==
  /\ IsTick /\ delivered.kind = "torque" /\ delivered.angle # <<>>
  /\ angle_error_integral # 0 /\ ki # 0
  /\ angle_reference # tickAngle
  /\ Forces = <<SetForce(delivered.torque[1])>>

\* C6: a position tick hands limit(kp*e - kd*omega + ki*I2, max_torque,
\* -max_torque) to SetForce, with e = angle_reference - angle and I2 =
\* limit(I + e*sampling_time, max_angle_error_integral,
\* -max_angle_error_integral) the integral after this tick's accumulation,
\* I being its value before the tick; I2 is the integral the tick leaves.
C6_PositionLaw ==
  [][ (event'.handler = "OnUpdate" /\ received_first_command /\ position_control) =>
        LET e == angle_reference - event'.args[2]
            omega == event'.args[3]
            I2 == limit(angle_error_integral + e * sampling_time',
                        max_angle_error_integral, -max_angle_error_integral)
        IN /\ angle_error_integral' = I2
           /\ calls'[1] = SetForce(limit(MaxSamplingTime * (kp * e - kd * omega) + ki * I2,
                                          max_torque, -max_torque)) ]_vars

\* The example: kp 2.0, kd 0.5, ki 0, max_torque 10, reference 0.5 rad,
\* angle 0, velocity 0, sampling time 0.01 s: SetForce(1.0).
C6_WitnessExample ==
  /\ IsTick /\ mode = "PositionControl"
  /\ kp = 4 /\ kd = 1 /\ ki = 0 /\ max_torque = 80000
  /\ angle_reference = 1 /\ tickAngle = 0 /\ tickOmega = 0
  /\ sampling_time = 20
  /\ Forces = <<SetForce(8000)>>

\* A position tick where the integral term decides the torque: a nonzero
\* ki, an integral changed by this tick, a torque inside the limits.
C6_Witness ==
  /\ IsTick /\ mode = "PositionControl"
  /\ ki # 0 /\ angle_error_integral # 0
  /\ angle_error_integral < max_angle_error_integral
  /\ angle_error_integral > -max_angle_error_integral
  /\ Len(Forces) = 1
  /\ Forces[1].args[1] < max_torque /\ Forces[1].args[1] > -max_torque
  /\ Forces[1].args[1] # MaxSamplingTime * (kp * (angle_reference - tickAngle) - kd * tickOmega)

\* C7: the mode changes only to PositionControl, by a position command, or
\* to TorqueControl, by a torque command; "first command received" is never
\* withdrawn; a tick never changes the mode.
C7_ModeTransitions ==
  [][ /\ (mode' # mode =>
            \/ mode' = "PositionControl" /\ event'.handler = "PositionCommandCallback"
            \/ mode' = "TorqueControl" /\ event'.handler = "TorqueCommandCallback")
      /\ (received_first_command => received_first_command')
      /\ (mode # "Uninitialized" => mode' # "Uninitialized")
      /\ (event'.handler = "OnUpdate" => mode' = mode) ]_vars

\* A tick in position mode entered from torque mode.
C7_Witness ==
  /\ IsTick /\ mode = "PositionControl"
  /\ delivered.kind = "position" /\ delivered.torque # <<>>

\* The torque the position law yields for a reference, from the tick's
\* sample and the integral the tick left.
PositionTorqueFor(reference) ==
  limit(MaxSamplingTime * (kp * (reference - tickAngle) - kd * tickOmega)
          + ki * angle_error_integral,
        max_torque, -max_torque)

\* C8: the mode is the kind of the last command delivered, angle_reference
\* the payload of the last position command, torque_reference the payload
\* of the last torque command; a tick runs the law of the last command's
\* kind on that command's payload.
C8_LastWriteWins ==
  /\ delivered.kind = "position" => mode = "PositionControl"
  /\ delivered.kind = "torque" => mode = "TorqueControl"
  /\ delivered.angle # <<>> => angle_reference = delivered.angle[1]
  /\ delivered.torque # <<>> => torque_reference = delivered.torque[1]
  /\ (IsTick /\ delivered.kind = "position") =>
        Forces = <<SetForce(PositionTorqueFor(delivered.angle[1]))>>
  /\ (IsTick /\ delivered.kind = "torque") =>
        Forces = <<SetForce(limit(torque_reference, max_torque, -max_torque))>>

\* A position command delivered right after another command, with no tick
\* in between, when commands of both kinds have been delivered.
C8_Witness ==
  /\ event.handler = "PositionCommandCallback"
  /\ event.after \in {"PositionCommandCallback", "TorqueCommandCallback"}
  /\ delivered.torque # <<>>
  /\ angle_reference = event.args[1]
  /\ prev_sim_time_guard

\* A tick right after two position commands with different payloads: the
\* torque is the law's for the second and differs from the law's for the other.
C8_WitnessTick ==
  /\ IsTick /\ delivered.kind = "position"
  /\ \E other \in AngleCommands \ {delivered.angle[1]} :
        Forces # <<SetForce(PositionTorqueFor(other))>>

\* C9: a tick observes all of a command's writes or none of them, under
\* every interleaving of a callback with a tick: a tick that runs a law runs
\* it with "first command received" and the mode flag written by the same
\* commands, so it never runs the torque law when no torque command was
\* ever delivered, nor the position law when no position command was.
C9_TickSeesWholeCommands ==
  /\ (IsTick /\ event.law = "torque") => delivered.torque # <<>>
  /\ (IsTick /\ event.law = "position") => delivered.angle # <<>>

\* C10: a configuration error (a required element missing, a joint name
\* that names no joint, minAngle > maxAngle) is fatal: Load fails, nothing
\* is connected or subscribed, and no tick is ever processed.
C10_ConfigErrorIsFatal ==
  sdf_errors # {} =>
    /\ phase = "failed"
    /\ ~updateConnection
    /\ ~position_command_sub
    /\ ~torque_command_sub
    /\ ~prev_sim_time_guard

\* The telemetry messages the last handler published, in call order.
Published == SelectSeq(calls, LAMBDA c : c.call = "publish")

\* C11: every tick publishes the joint state exactly once, in every mode,
\* and as its last call; a tick after the first command calls SetForce
\* exactly once, before the publish; and wherever OnUpdate is connected a
\* tick can run to its publish (OnUpdate has no failing exit).
C11_TickPublishesOnceAfterForce ==
  /\ IsTick =>
        /\ Published = <<JointStateMsg(tickTime, tickAngle, tickOmega)>>
        /\ calls[Len(calls)].call = "publish"
        /\ Len(Forces) = (IF mode = "Uninitialized" THEN 0 ELSE 1)
        /\ Len(calls) = Len(Forces) + 1
  /\ updateConnection => ENABLED Tick

\* A torque tick and, before it, position control: SetForce, then publish.
C11_Witness ==
  /\ IsTick /\ mode = "TorqueControl" /\ delivered.angle # <<>>
  /\ Len(calls) = 2
  /\ calls[1].call = "SetForce" /\ calls[2].call = "publish"

\* C12: for all v, lo, hi with lo <= hi, limit(v, hi, lo) lies in [lo, hi],
\* and it is v when v already lies in [lo, hi].
C12_LimitWithinBounds ==
  (event.handler = "limit" /\ event.returned # <<>>) =>
    LET v == event.args[1]
        hi == event.args[2]
        lo == event.args[3]
        clamped == event.returned[1]
    IN lo <= hi =>
         /\ lo <= clamped /\ clamped <= hi
         /\ (lo <= v /\ v <= hi) => clamped = v

\* The three cases with lo < hi: a value above hi returned as hi, a value
\* below lo returned as lo, a value strictly between returned as it is.
C12_Witness ==
  /\ event.handler = "limit" /\ event.returned # <<>>
  /\ event.args[3] < event.args[2]
  /\ event.args[1] > event.args[2]
  /\ event.returned = <<event.args[2]>>

C12_WitnessBelow ==
  /\ event.handler = "limit" /\ event.returned # <<>>
  /\ event.args[3] < event.args[2]
  /\ event.args[1] < event.args[3]
  /\ event.returned = <<event.args[3]>>

C12_WitnessInside ==
  /\ event.handler = "limit" /\ event.returned # <<>>
  /\ event.args[3] < event.args[1] /\ event.args[1] < event.args[2]
  /\ event.returned = <<event.args[1]>>

\* C13: prev_sim_time belongs to the instance: on every tick but its first
\* an instance derives sampling_time = limit(t - t_prev, 1.0, 0.001) with
\* t_prev the timestamp of its own previous tick, whatever ticks other
\* instances of the process have run in between.
C13_SamplingTimeFromOwnPreviousTick ==
  (IsTick /\ ~event.first) =>
    sampling_time = limit(event.own_raw, MaxSamplingTime, MinSamplingTime)

\* C14: on an instance's very first tick prev_sim_time is initialised to
\* the tick's timestamp, so the raw interval is 0 and sampling_time is
\* 0.001 s, whatever the timestamp.
C14_FirstTickInitialisesPrevSimTime ==
  (IsTick /\ event.first) =>
    /\ event.raw = 0
    /\ sampling_time = MinSamplingTime

\* C15: every tick leaves prev_sim_time at the tick's timestamp, whether
\* or not the interval was clamped and whether or not a command has been
\* delivered; so the sampling_time of every tick after the first, and of
\* the first tick that runs a control law in particular, is the limited
\* interval since the tick right before it.
C15_EveryTickUpdatesPrevSimTime ==
  IsTick =>
    /\ prev_sim_time_guard
    /\ prev_sim_time = tickTime
    /\ ~event.first =>
          sampling_time = limit(event.own_raw, MaxSamplingTime, MinSamplingTime)

\* The first tick to run a control law, at 0.01 s, after a tick before the
\* first command at 0 s: sampling_time is 0.01 s.
C15_Witness ==
  /\ IsTick /\ event.first_law /\ ~event.first
  /\ mode # "Uninitialized"
  /\ tickTime = 20 /\ event.own_raw = 20
  /\ sampling_time = 20
  /\ prev_sim_time = 20

\* A tick before the first command whose interval was clamped from
\* 1.0105 s to 1.0 s: prev_sim_time is the tick's timestamp all the same.
C15_WitnessClamped ==
  /\ IsTick /\ mode = "Uninitialized"
  /\ event.own_raw > MaxSamplingTime
  /\ sampling_time = MaxSamplingTime
  /\ prev_sim_time = tickTime

\* C16: angle_error_integral is changed by position ticks only: a position
\* command, a torque command, a torque tick and a tick before the first
\* command leave it as it is, so a position tick after a stay in torque
\* control accumulates onto the integral position control left behind; a
\* torque tick also leaves the mode and both references as they are.
C16_IntegralChangedByPositionTicksOnly ==
  [][ /\ (angle_error_integral' # angle_error_integral =>
             event'.handler = "OnUpdate" /\ mode = "PositionControl")
      /\ ((event'.handler = "OnUpdate" /\ mode = "PositionControl") =>
             angle_error_integral' =
               limit(angle_error_integral
                       + (angle_reference - event'.args[2]) * sampling_time',
                     max_angle_error_integral, -max_angle_error_integral))
      /\ ((event'.handler = "OnUpdate" /\ mode = "TorqueControl") =>
             UNCHANGED <<angle_error_integral, modeVars, refVars>>) ]_vars

\* A torque tick with the integral still at the nonzero value position
\* control left.
C16_Witness ==
  /\ IsTick /\ mode = "TorqueControl"
  /\ angle_error_integral # 0
  /\ ki # 0
  /\ Forces = <<SetForce(limit(torque_reference, max_torque, -max_torque))>>

\* Back in position control right after a torque command, the integral
\* nonzero: PositionControl -> TorqueControl -> PositionControl.
C16_WitnessSwitchBack ==
  /\ event.handler = "PositionCommandCallback"
  /\ event.after = "TorqueCommandCallback"
  /\ angle_error_integral # 0

\* A position tick, a torque command having been delivered, that left an
\* integral inside its bound other than this tick's increment alone: the
\* tick started from a nonzero integral.
C16_WitnessAccumulates ==
  /\ IsTick /\ mode = "PositionControl" /\ delivered.torque # <<>>
  /\ angle_error_integral < max_angle_error_integral
  /\ angle_error_integral > -max_angle_error_integral
  /\ angle_error_integral # (angle_reference - tickAngle) * sampling_time

\* The joint limit calls among a sequence of calls, in call order.
LimitCalls(cs) == SelectSeq(cs, LAMBDA c : c.call \in {"SetLowerLimit", "SetUpperLimit"})

\* C17: the joint limits are written once, by Load: SetLowerLimit(min_angle)
\* and SetUpperLimit(max_angle), before OnUpdate is connected to the world
\* update, and Load runs once; no tick and no command callback calls
\* SetLowerLimit or SetUpperLimit; the position law does not limit
\* angle_reference to [min_angle, max_angle]: it leaves the reference as
\* it is and computes the torque from it.
C17_JointLimitsSetOnceByLoad ==
  [][ /\ ((event'.handler = "Load" /\ phase' = "loaded") =>
             /\ phase = "constructed" /\ ~updateConnection
             /\ LimitCalls(calls') = << Call("SetLowerLimit", <<min_angle'>>),
                                        Call("SetUpperLimit", <<max_angle'>>) >>
             /\ calls'[1].call = "SetLowerLimit"
             /\ calls'[2].call = "SetUpperLimit"
             /\ calls'[3].call = "ConnectWorldUpdateBegin")
      /\ (event'.handler # "Load" => LimitCalls(calls') = <<>>)
      /\ (phase # "constructed" => phase' = phase)
      /\ ((event'.handler = "OnUpdate" /\ mode = "PositionControl") =>
             /\ angle_reference' = angle_reference
             /\ Forces' = << SetForce(
                   limit(MaxSamplingTime * (kp * (angle_reference - event'.args[2])
                                              - kd * event'.args[3])
                           + ki * angle_error_integral',
                         max_torque, -max_torque)) >>) ]_vars

\* A position tick with the reference at 1000 rad, above max_angle: the
\* reference is still 1000 rad and the torque is not the one the law
\* yields for max_angle.
C17_Witness ==
  /\ IsTick /\ mode = "PositionControl"
  /\ phase = "loaded"
  /\ angle_reference = 1000 * 2
  /\ angle_reference > max_angle
  /\ LimitCalls(calls) = <<>>
  /\ Forces # <<SetForce(PositionTorqueFor(max_angle))>>

\* Load has just run: the limits, then the connection.
C17_WitnessLoad ==
  /\ event.handler = "Load" /\ phase = "loaded"
  /\ Len(LimitCalls(calls)) = 2
  /\ calls[3].call = "ConnectWorldUpdateBegin"

============================================================================
